---- MODULE Spec2Model ----
(***************************************************************************)
(* A model of the power-aware request broker: the persistent request       *)
(* queue (queue/request_queue.py), the scheduler with its lazily started   *)
(* worker thread (scheduler/power_aware_scheduler.py), and the power       *)
(* monitor and inference driver as far as the scheduler observes them.     *)
(*                                                                         *)
(* Units: time in milliseconds, power in centiwatts, battery in percent.   *)
(* Threads interleave at the granularity of their accesses to shared       *)
(* state (the store, the scheduler's flags, the monitor).  Executing a     *)
(* statement takes no model time; time passes only while every live        *)
(* thread is blocked in time.sleep or inside generate_response.            *)
(***************************************************************************)
EXTENDS Integers, Sequences, FiniteSets, TLC

\* ------------------------------------------------------------------ bounds
MaxJobs == 2          \* enqueue_prompt calls over a run
MaxWorkers == 2       \* worker threads alive at once that the model can hold
MaxTime == 61000      \* the clock stops advancing past this instant (ms)
MaxRows == 2          \* rows of a requests table drawn at will
MaxStoreRows == 3     \* rows a store used on its own gets through enqueue
MaxPromptLen == 64    \* characters of a prompt given to estimate_tokens
MaxUpdates == 2       \* calibration updates over a run
MaxHoursAhead == 3    \* hours_ahead of a predict_future_availability call

\* ------------------------------------------------------- program constants
BatteryThreshold == 30      \* power_aware_scheduler.py:193
IdleSleepMs == 10000        \* power_aware_scheduler.py:269
LowBatterySleepMs == 30000  \* power_aware_scheduler.py:273
QueueDelayMs == 60000       \* power_aware_scheduler.py:127
HoursAhead == 24            \* power_aware_scheduler.py:135
NearHours == 6              \* power_aware_scheduler.py:152
HourMs == 3600000           \* timedelta(hours=1)
CharsPerToken == 4          \* power_aware_scheduler.py:83
FallbackProcessingMs == 60000 \* power_aware_scheduler.py:108

\* power_calibration_data defaults (power_aware_scheduler.py:54-58)
base_power == 200
token_processing_power == 5
tokens_per_second == 10

\* --------------------------------------------------------- input domains
Producers == {"p1", "p2"}
WorkerIds == 1 .. MaxWorkers
Convs == {"c1", "c2"}
PromptLens == {0, 5}                  \* "" and "hello"
BatteryLevels == {20, 30, 80}
SolarLevels == {0, 200, 205}
GenDurationsMs == {100}
FirstCapableHours == {0, HoursAhead}  \* sun now, or none for a day
ForecastSolar == 3000                 \* solar_output of a usable forecast hour
Texts == {"", "Hello"}                \* what generate_response can return
NULL == "NULL"                        \* SQL NULL / Python None
NoRequest == 0                        \* get_next_processable_request -> None

VARIABLES
  requests,         \* the requests table, in insertion order; id = index
  processing,       \* PowerAwareScheduler.processing
  stop_processing,  \* PowerAwareScheduler.stop_processing
  immediate_mode,   \* PowerAwareScheduler.immediate_mode
  prod,             \* producers inside enqueue_prompt: position and locals
  workers,          \* process_queue_loop threads: position and locals
  battery_level,    \* the monitor's battery level
  now,              \* the wall clock
  stopCalled,       \* stop() has been called (history)
  raisedAt,         \* when the battery was last raised from <= 30 to 80 (history)
  callback_fn,      \* PowerAwareScheduler.callback_fn is set
  hook_log,         \* the calls of callback_fn so far, in order (history)
  result            \* what the last call of a function under study returned

vars == <<requests, processing, stop_processing, immediate_mode, prod, workers,
          battery_level, now, stopCalled, raisedAt, callback_fn, hook_log, result>>

\* what only the hook and the functions under study change
aux == <<callback_fn, hook_log, result>>

\* ------------------------------------------------------------- helpers
Max(a, b) == IF a >= b THEN a ELSE b

SetMin(S) == CHOOSE x \in S : \A y \in S : x <= y

SetMax(S) == CHOOSE x \in S : \A y \in S : x >= y

Ids == 1 .. Len(requests)

\* variant: the text keeps whole seconds only
isoformat_whole_seconds(t) == <<t \div 1000>>

\* datetime.isoformat(): the seconds, and the fraction only when it is not 0.
\* Fields are fixed-width, so a field is one symbol of the string.
isoformat(t) == IF t % 1000 = 0 THEN <<t \div 1000>> ELSE <<t \div 1000, t % 1000>>

\* SQLite's comparison of two TEXT values (memcmp, a proper prefix is smaller).
TextLE(a, b) ==
  IF a[1] # b[1] THEN a[1] < b[1]
  ELSE IF Len(a) = 1 THEN TRUE
  ELSE IF Len(b) = 1 THEN FALSE
  ELSE a[2] <= b[2]

\* ------------------------------------------------------ scheduler estimates
\* variant: a started group of four characters counts as a token
estimate_tokens_rounded_up(promptLen) ==
  IF promptLen = 0 THEN 0 ELSE Max(1, (promptLen + CharsPerToken - 1) \div CharsPerToken)

estimate_tokens(promptLen) ==
  IF promptLen = 0 THEN 0 ELSE Max(1, promptLen \div CharsPerToken)

estimate_power_requirement(token_count) ==
  base_power + token_count * token_processing_power

estimate_processing_time(token_count) ==
  IF tokens_per_second > 0 THEN (token_count * 1000) \div tokens_per_second
  ELSE FallbackProcessingMs

\* The forecast of predict_future_availability(24) as enqueue_prompt reads it:
\* per hour, processing_capable and solar_output.  first_capable is the first
\* hour ahead with usable sun; HoursAhead stands for none within the day.
Forecast(first_capable) ==
  [i \in 1 .. HoursAhead |->
     [processing_capable |-> i - 1 >= first_capable,
      solar_output |-> IF i - 1 >= first_capable THEN ForecastSolar ELSE 0]]

\* variant: every candidate replaces the default, without "if candidate_time <
\* estimated_completion"
RECURSIVE ScanForecastUncapped(_, _, _, _, _, _)
ScanForecastUncapped(fc, i, power_needed, base, delay, best) ==
  IF i > Len(fc) THEN best
  ELSE IF fc[i].processing_capable /\ power_needed <= fc[i].solar_output
       THEN base + (i - 1) * HourMs + delay
       ELSE ScanForecastUncapped(fc, i + 1, power_needed, base, delay, best)

RECURSIVE ScanForecast(_, _, _, _, _, _)
ScanForecast(fc, i, power_needed, base, delay, best) ==
  IF i > Len(fc) THEN best
  ELSE IF fc[i].processing_capable /\ power_needed <= fc[i].solar_output
       THEN LET candidate_time == base + (i - 1) * HourMs + delay
                taken == IF candidate_time < best THEN candidate_time ELSE best
            IN IF i - 1 < NearHours THEN taken
               ELSE ScanForecast(fc, i + 1, power_needed, base, delay, taken)
       ELSE ScanForecast(fc, i + 1, power_needed, base, delay, best)

\* variant: the estimate without queue_delay
EstimatedCompletionNoQueueDelay(t, immediate, fc, power_needed, processing_time, queue_length) ==
  IF immediate THEN t + processing_time
  ELSE ScanForecast(fc, 1, power_needed, t, processing_time, t + HoursAhead * HourMs)

\* variant: the default is two days ahead
EstimatedCompletionTwoDays(t, immediate, fc, power_needed, processing_time, queue_length) ==
  LET queue_delay == QueueDelayMs * queue_length
  IN IF immediate THEN t + processing_time + queue_delay
     ELSE ScanForecast(fc, 1, power_needed, t, processing_time + queue_delay,
                       t + 2 * HoursAhead * HourMs)

\* enqueue_prompt's estimated_completion
EstimatedCompletion(t, immediate, fc, power_needed, processing_time, queue_length) ==
  LET queue_delay == QueueDelayMs * queue_length
  IN IF immediate THEN t + processing_time + queue_delay
     ELSE ScanForecast(fc, 1, power_needed, t, processing_time + queue_delay,
                       t + HoursAhead * HourMs)

\* ------------------------------------------------------------- the store
get_queue_length == Cardinality({i \in Ids : requests[i].status = "queued"})

\* variant: ORDER BY submitted_at DESC LIMIT 1
LastBySubmitted(S) ==
  IF S = {} THEN NoRequest
  ELSE CHOOSE i \in S : \A j \in S :
         requests[i].submitted_at > requests[j].submitted_at
         \/ (requests[i].submitted_at = requests[j].submitted_at /\ i >= j)

\* ORDER BY submitted_at ASC LIMIT 1 over the rows of S
FirstBySubmitted(S) ==
  IF S = {} THEN NoRequest
  ELSE CHOOSE i \in S : \A j \in S :
         requests[i].submitted_at < requests[j].submitted_at
         \/ (requests[i].submitted_at = requests[j].submitted_at /\ i <= j)

\* estimated_completion <= ? with both sides ISO-8601 TEXT (lines 107, 110)
Due(estimated_completion, t) ==
  TextLE(isoformat(estimated_completion), isoformat(t))

\* variant: estimated_power < ?
PowerFitsStrictly(estimated_power, available_power) == estimated_power < available_power

\* estimated_power <= ? (line 106)
PowerFits(estimated_power, available_power) == estimated_power <= available_power

get_next_processable_request(available_power, immediate) ==
  IF immediate
  THEN FirstBySubmitted({i \in Ids : requests[i].status = "queued"})
  ELSE FirstBySubmitted({i \in Ids :
         /\ requests[i].status = "queued"
         /\ PowerFits(requests[i].estimated_power, available_power)
         /\ Due(requests[i].estimated_completion, now)})

\* update_request_status: "if response:" writes the response only when truthy
update_request_status(reqs, id, status, response) ==
  IF response # NULL /\ response # ""
  THEN [reqs EXCEPT ![id].status = status, ![id].response = response]
  ELSE [reqs EXCEPT ![id].status = status]

\* ------------------------------------------------------------- threads
IdleProducer == [pc |-> "idle"]
DeadWorker == [pc |-> "dead", next_request |-> NoRequest, battery |-> 0,
               response |-> NULL, until |-> 0]

Live(w) == workers[w].pc # "dead"
LiveWorkers == {w \in WorkerIds : Live(w)}
\* a thread that cannot take a step until time has passed
Blocked(w) ==
  \/ workers[w].pc = "dead"
  \/ workers[w].pc \in {"sleep", "generate"} /\ now < workers[w].until

\* datetime.now() in RequestQueue.enqueue: later than the reading enqueue_prompt
\* took and than every reading before it
SubmittedNow ==
  1 + Max(now, IF requests = <<>> THEN 0 ELSE requests[Len(requests)].submitted_at)

Init ==
  /\ requests = <<>>
  /\ processing = FALSE
  /\ stop_processing = FALSE
  /\ immediate_mode \in BOOLEAN
  /\ prod = [p \in Producers |-> IdleProducer]
  /\ workers = [w \in WorkerIds |-> DeadWorker]
  /\ battery_level \in BatteryLevels
  /\ now = 0
  /\ stopCalled = FALSE
  /\ raisedAt = -1
  /\ callback_fn = FALSE
  /\ hook_log = <<>>
  /\ result = NULL

\* --- enqueue_prompt, lines 120-161: the estimates, then RequestQueue.enqueue.
\* first_capable: the monitor's forecast at the time of the call.
Enqueue(p, conv, promptLen, first_capable) ==
  /\ prod[p].pc = "idle"
  /\ Len(requests) < MaxJobs
  /\ LET token_count == estimate_tokens(promptLen)
         power_needed == estimate_power_requirement(token_count)
         processing_time == estimate_processing_time(token_count)
         estimated_completion ==
           EstimatedCompletion(now, immediate_mode, Forecast(first_capable),
                               power_needed, processing_time, get_queue_length)
     IN requests' = Append(requests,
          [conversation_id |-> conv, prompt |-> promptLen,
           submitted_at |-> SubmittedNow, estimated_power |-> power_needed,
           estimated_completion |-> estimated_completion,
           status |-> "queued", response |-> NULL])
  /\ prod' = [prod EXCEPT ![p] = [pc |-> "check"]]
  /\ UNCHANGED <<processing, stop_processing, immediate_mode, workers,
                 battery_level, now, stopCalled, raisedAt, aux>>

\* --- enqueue_prompt, line 164: if not self.processing
CheckProcessing(p) ==
  /\ prod[p].pc = "check"
  /\ prod' = [prod EXCEPT ![p] = [pc |-> IF processing THEN "idle" ELSE "start"]]
  /\ UNCHANGED <<requests, processing, stop_processing, immediate_mode, workers,
                 battery_level, now, stopCalled, raisedAt, aux>>

\* --- start_processing, line 171: if not self.processing
StartCheck(p) ==
  /\ prod[p].pc = "start"
  /\ prod' = [prod EXCEPT ![p] = [pc |-> IF processing THEN "idle" ELSE "spawn"]]
  /\ UNCHANGED <<requests, processing, stop_processing, immediate_mode, workers,
                 battery_level, now, stopCalled, raisedAt, aux>>

\* --- start_processing, lines 172-174: set the flags and start the thread
Spawn(p) ==
  /\ prod[p].pc = "spawn"
  /\ \E w \in WorkerIds :
       /\ ~Live(w)
       /\ \A v \in WorkerIds : v < w => Live(v)
       /\ workers' = [workers EXCEPT ![w] = [DeadWorker EXCEPT !.pc = "start"]]
  /\ processing' = TRUE
  /\ stop_processing' = FALSE
  /\ prod' = [prod EXCEPT ![p] = IdleProducer]
  /\ UNCHANGED <<requests, immediate_mode, battery_level, now, stopCalled, raisedAt, aux>>

\* --- stop(), line 178
Stop ==
  /\ ~stopCalled
  /\ stop_processing' = TRUE
  /\ stopCalled' = TRUE
  /\ UNCHANGED <<requests, processing, immediate_mode, prod, workers,
                 battery_level, now, raisedAt, aux>>

\* --- process_queue_loop, line 182
WorkerBegin(w) ==
  /\ workers[w].pc = "start"
  /\ processing' = TRUE
  /\ workers' = [workers EXCEPT ![w].pc = "loop"]
  /\ UNCHANGED <<requests, stop_processing, immediate_mode, prod, battery_level,
                 now, stopCalled, raisedAt, aux>>

\* variant: the low-battery sleep lasts twice as long
LowBatteryWakeLate(t) == t + 2 * LowBatterySleepMs

\* line 273: time.sleep(30)
LowBatteryWake(t) == t + LowBatterySleepMs

\* line 269: time.sleep(10)
IdleWake(t) == t + IdleSleepMs

\* variant: the loop is left with one request still queued
QueueDrainedEarly(queue_length) == queue_length <= 1

\* line 277: if queue_length == 0
QueueDrained(queue_length) == queue_length = 0

\* variant: battery_level >= 30
BatteryAllowsAtThreshold(level) == level >= BatteryThreshold

\* line 193: if power_status["battery_level"] > 30
BatteryAllows(level) == level > BatteryThreshold

\* --- process_queue_loop, lines 185-202 and 266-273: the loop test, the power
\* status (available_power is the solar_output read), and either the selection
\* of the next request or a sleep
Poll(w, available_power) ==
  /\ workers[w].pc = "loop"
  /\ IF stop_processing
     THEN workers' = [workers EXCEPT ![w].pc = "exit"]
     ELSE IF BatteryAllows(battery_level)
     THEN LET next_request ==
                get_next_processable_request(available_power, immediate_mode)
          IN IF next_request # NoRequest
             THEN workers' = [workers EXCEPT ![w] =
                    [@ EXCEPT !.pc = "mark", !.next_request = next_request,
                              !.battery = battery_level]]
             ELSE workers' = [workers EXCEPT ![w] =
                    [@ EXCEPT !.pc = "sleep", !.until = IdleWake(now)]]
     ELSE workers' = [workers EXCEPT ![w] =
            [@ EXCEPT !.pc = "sleep", !.until = LowBatteryWake(now)]]
  /\ UNCHANGED <<requests, processing, stop_processing, immediate_mode, prod,
                 battery_level, now, stopCalled, raisedAt, aux>>

\* --- process_queue_loop, line 202: update_request_status(id, "processing");
\* generate_response is then entered and takes d ms
MarkProcessing(w) ==
  /\ workers[w].pc = "mark"
  /\ requests' = update_request_status(requests, workers[w].next_request,
                                       "processing", NULL)
  /\ \E d \in GenDurationsMs :
       workers' = [workers EXCEPT ![w] =
         [@ EXCEPT !.pc = "generate", !.battery = 0, !.until = now + d]]
  /\ UNCHANGED <<processing, stop_processing, immediate_mode, prod, battery_level,
                 now, stopCalled, raisedAt, aux>>

\* --- process_queue_loop, lines 205-228: generate_response returns a text
GenerateReturns(w, text) ==
  /\ workers[w].pc = "generate"
  /\ now >= workers[w].until
  /\ workers' = [workers EXCEPT ![w] =
       [@ EXCEPT !.pc = "complete", !.response = text, !.until = 0]]
  /\ UNCHANGED <<requests, processing, stop_processing, immediate_mode, prod,
                 battery_level, now, stopCalled, raisedAt, aux>>

\* --- process_queue_loop, lines 205-228 and 261: generate_response raises
GenerateRaises(w) ==
  /\ workers[w].pc = "generate"
  /\ now >= workers[w].until
  /\ workers' = [workers EXCEPT ![w] = [@ EXCEPT !.pc = "fail", !.until = 0]]
  /\ UNCHANGED <<requests, processing, stop_processing, immediate_mode, prod,
                 battery_level, now, stopCalled, raisedAt, aux>>

\* --- process_queue_loop, lines 232-236: update_request_status(id, "completed", response)
MarkCompleted(w) ==
  /\ workers[w].pc = "complete"
  /\ requests' = update_request_status(requests, workers[w].next_request,
                                       "completed", workers[w].response)
  /\ workers' = [workers EXCEPT ![w].pc = "callback"]
  /\ UNCHANGED <<processing, stop_processing, immediate_mode, prod, battery_level,
                 now, stopCalled, raisedAt, aux>>

\* lines 243, 254: if conversation_id and conversation_id != "None"
ValidConversation(conversation_id) == conversation_id \notin {NULL, "", "None"}

\* variant: the hook is given the job's id instead of its conversation id
HookArgumentJobId(id) == id

\* lines 242-245: the argument callback_fn is called with, for the selected row
HookArgument(id) == requests[id].conversation_id

\* the hook is called for the job the worker has just completed (lines 245, 256;
\* the row looked up at line 252 carries the same conversation_id)
HookCalled(w, raised) ==
  IF callback_fn /\ ValidConversation(requests[workers[w].next_request].conversation_id)
  THEN Append(hook_log, [job |-> workers[w].next_request,
                         conversation_id |-> HookArgument(workers[w].next_request),
                         raised |-> raised])
  ELSE hook_log

\* variant: an exception of the hook reaches the outer handler, which fails the job
HookExceptionPropagates(w) == "fail"

\* lines 258-259: except Exception inside the try block of the hook
HookExceptionCaught(w) == "hook_except"

\* --- process_queue_loop, lines 239-259: the callback, when it is not set or
\* returns normally
Callback(w) ==
  /\ workers[w].pc = "callback"
  /\ workers' = [workers EXCEPT ![w].pc = "qcheck"]
  /\ hook_log' = HookCalled(w, FALSE)
  /\ UNCHANGED <<requests, processing, stop_processing, immediate_mode, prod,
                 battery_level, now, stopCalled, raisedAt, callback_fn, result>>

\* --- process_queue_loop, lines 245, 256: the callback raises
CallbackRaises(w) ==
  /\ workers[w].pc = "callback"
  /\ HookCalled(w, TRUE) # hook_log
  /\ workers' = [workers EXCEPT ![w].pc = HookExceptionCaught(w)]
  /\ hook_log' = HookCalled(w, TRUE)
  /\ UNCHANGED <<requests, processing, stop_processing, immediate_mode, prod,
                 battery_level, now, stopCalled, raisedAt, callback_fn, result>>

\* --- process_queue_loop, lines 258-259: the hook's exception is printed
HookExcept(w) ==
  /\ workers[w].pc = "hook_except"
  /\ workers' = [workers EXCEPT ![w].pc = "qcheck"]
  /\ UNCHANGED <<requests, processing, stop_processing, immediate_mode, prod,
                 battery_level, now, stopCalled, raisedAt, aux>>

\* --- process_queue_loop, lines 261-265: update_request_status(id, "failed")
MarkFailed(w) ==
  /\ workers[w].pc = "fail"
  /\ requests' = update_request_status(requests, workers[w].next_request, "failed", NULL)
  /\ workers' = [workers EXCEPT ![w].pc = "qcheck"]
  /\ UNCHANGED <<processing, stop_processing, immediate_mode, prod, battery_level,
                 now, stopCalled, raisedAt, aux>>

\* --- time.sleep returns (lines 269, 273)
Wake(w) ==
  /\ workers[w].pc = "sleep"
  /\ now >= workers[w].until
  /\ workers' = [workers EXCEPT ![w] = [@ EXCEPT !.pc = "qcheck", !.until = 0]]
  /\ UNCHANGED <<requests, processing, stop_processing, immediate_mode, prod,
                 battery_level, now, stopCalled, raisedAt, aux>>

\* --- process_queue_loop, lines 276-280: leave the loop when the queue is empty
QueueCheck(w) ==
  /\ workers[w].pc = "qcheck"
  /\ workers' = [workers EXCEPT ![w] =
       [DeadWorker EXCEPT !.pc = IF QueueDrained(get_queue_length) THEN "exit" ELSE "loop"]]
  /\ UNCHANGED <<requests, processing, stop_processing, immediate_mode, prod,
                 battery_level, now, stopCalled, raisedAt, aux>>

\* --- process_queue_loop, line 282: self.processing = False, the thread ends
WorkerExit(w) ==
  /\ workers[w].pc = "exit"
  /\ processing' = FALSE
  /\ workers' = [workers EXCEPT ![w] = DeadWorker]
  /\ UNCHANGED <<requests, stop_processing, immediate_mode, prod, battery_level,
                 now, stopCalled, raisedAt, aux>>

\* --- the monitor's battery level changes (charge, discharge, drain)
BatteryChange(b) ==
  /\ b # battery_level
  /\ battery_level' = b
  /\ UNCHANGED <<requests, processing, stop_processing, immediate_mode, prod, workers,
                 now, stopCalled, raisedAt, aux>>

\* --- time passes, up to the next instant at which a blocked thread resumes
\* or a queued request falls due
Deadlines ==
  {workers[w].until : w \in {v \in WorkerIds : workers[v].pc \in {"sleep", "generate"}}}
  \cup {requests[i].estimated_completion : i \in {j \in Ids : requests[j].status = "queued"}}

Advance(instants, horizon) ==
  /\ \A p \in Producers : prod[p].pc = "idle"
  /\ \A w \in WorkerIds : Blocked(w)
  /\ LET due == {t \in instants : t > now /\ t <= horizon}
     IN /\ due # {}
        /\ now' = SetMin(due)
  /\ UNCHANGED <<requests, processing, stop_processing, immediate_mode, prod, workers,
                 battery_level, stopCalled, raisedAt, aux>>

Tick == Advance(Deadlines, MaxTime)

ProducerStep ==
  \E p \in Producers :
    \/ \E conv \in Convs, promptLen \in PromptLens, first_capable \in FirstCapableHours :
         Enqueue(p, conv, promptLen, first_capable)
    \/ CheckProcessing(p)
    \/ StartCheck(p)
    \/ Spawn(p)

WorkerStep ==
  \E w \in WorkerIds :
    \/ \E available_power \in SolarLevels : Poll(w, available_power)
    \/ WorkerBegin(w)
    \/ MarkProcessing(w)
    \/ \E text \in Texts : GenerateReturns(w, text)
    \/ GenerateRaises(w)
    \/ MarkCompleted(w)
    \/ Callback(w)
    \/ MarkFailed(w)
    \/ Wake(w)
    \/ QueueCheck(w)
    \/ WorkerExit(w)

Next ==
  \/ ProducerStep
  \/ WorkerStep
  \/ Stop
  \/ \E b \in BatteryLevels : BatteryChange(b)
  \/ Tick

Spec == Init /\ [][Next]_vars

\* ===================================================================
\* Scenario: the happy path.  Scheduled mode, an idle scheduler, one producer
\* and one enqueue_prompt call; the battery stays above the threshold, every
\* solar reading covers the job's estimated_power, and the driver returns
\* (any of its texts) without raising.  Threads that can run do run and time
\* passes (weak fairness).
\* ===================================================================
DayMs == HoursAhead * HourMs
Producer1 == CHOOSE p \in Producers : TRUE
HighBatteryLevels == {50, 80}

\* every queued request's estimated_power is covered by the reading
Covers(available_power) ==
  \A i \in Ids : requests[i].status = "queued" =>
    requests[i].estimated_power <= available_power

HappyInit ==
  /\ requests = <<>>
  /\ processing = FALSE
  /\ stop_processing = FALSE
  /\ immediate_mode = FALSE
  /\ prod = [p \in Producers |-> IdleProducer]
  /\ workers = [w \in WorkerIds |-> DeadWorker]
  /\ battery_level \in HighBatteryLevels
  /\ now = 0
  /\ stopCalled = FALSE
  /\ raisedAt = -1
  /\ callback_fn = FALSE
  /\ hook_log = <<>>
  /\ result = NULL

HappyEnqueue ==
  /\ requests = <<>>
  /\ \E conv \in Convs, promptLen \in PromptLens, first_capable \in FirstCapableHours :
       Enqueue(Producer1, conv, promptLen, first_capable)

HappyProducerStep ==
  \/ CheckProcessing(Producer1)
  \/ StartCheck(Producer1)
  \/ Spawn(Producer1)

HappyPoll(w) ==
  \E available_power \in SolarLevels : Covers(available_power) /\ Poll(w, available_power)

HappyWorkerStep ==
  \E w \in WorkerIds :
    \/ HappyPoll(w)
    \/ WorkerBegin(w)
    \/ MarkProcessing(w)
    \/ \E text \in Texts : GenerateReturns(w, text)
    \/ MarkCompleted(w)
    \/ Callback(w)
    \/ Wake(w)
    \/ QueueCheck(w)
    \/ WorkerExit(w)

HappyBatteryChange == \E b \in HighBatteryLevels : BatteryChange(b)

HappyTick == Advance(Deadlines, 2 * DayMs)

HappyNext ==
  \/ HappyEnqueue
  \/ HappyProducerStep
  \/ HappyWorkerStep
  \/ HappyBatteryChange
  \/ HappyTick

HappySpec ==
  /\ HappyInit
  /\ [][HappyNext]_vars
  /\ WF_vars(HappyProducerStep)
  /\ WF_vars(HappyWorkerStep)
  /\ WF_vars(HappyTick)

\* ===================================================================
\* Scenario: low battery, then a raise.  One job is enqueued while the battery
\* is below the threshold; the battery is raised once (app.py simulate_charge)
\* and stays; the sun is up, every solar reading covers the job and the driver
\* returns.  Threads that can run do run and time passes (weak fairness).
\* ===================================================================
LowBattery == SetMin(BatteryLevels)
RaisedBattery == SetMax(BatteryLevels)
ObservedAtMs == 3000      \* the scenario looks at the job 3 s after the enqueue

LowInit ==
  /\ requests = <<>>
  /\ processing = FALSE
  /\ stop_processing = FALSE
  /\ immediate_mode \in BOOLEAN
  /\ prod = [p \in Producers |-> IdleProducer]
  /\ workers = [w \in WorkerIds |-> DeadWorker]
  /\ battery_level = LowBattery
  /\ now = 0
  /\ stopCalled = FALSE
  /\ raisedAt = -1
  /\ callback_fn = FALSE
  /\ hook_log = <<>>
  /\ result = NULL

LowEnqueue ==
  /\ requests = <<>>
  /\ battery_level = LowBattery
  /\ \E conv \in Convs, promptLen \in PromptLens : Enqueue(Producer1, conv, promptLen, 0)

\* simulate_charge: battery_level = min(100, battery_level + amount)
RaiseBattery ==
  /\ requests # <<>>
  /\ prod[Producer1].pc = "idle"
  /\ battery_level = LowBattery
  /\ battery_level' = RaisedBattery
  /\ raisedAt' = now
  /\ UNCHANGED <<requests, processing, stop_processing, immediate_mode, prod, workers,
                 now, stopCalled, aux>>

\* time passes to the next deadline or observation instant; while the battery
\* has not been raised the clock stops at MaxTime
LowTick ==
  Advance(Deadlines \cup {ObservedAtMs, LowBatterySleepMs + ObservedAtMs},
          IF raisedAt >= 0 THEN MaxTime + DayMs ELSE MaxTime)

LowNext ==
  \/ LowEnqueue
  \/ HappyProducerStep
  \/ HappyWorkerStep
  \/ RaiseBattery
  \/ LowTick

LowBatterySpec ==
  /\ LowInit
  /\ [][LowNext]_vars
  /\ WF_vars(HappyProducerStep)
  /\ WF_vars(HappyWorkerStep)
  /\ WF_vars(LowTick)

\* ===================================================================
\* The selection query on an arbitrary store.  The table holds up to MaxRows
\* rows of any status, power and due time, inserted in id order; a worker at
\* the top of its loop (battery high) runs the query for some available power.
\* Powers 200 and 500 against 100, 200 and 300 are those of
\* test_get_next_processable_request; due times straddle a whole second.
\* ===================================================================
Statuses == {"queued", "processing", "completed", "failed"}
RowPowers == {200, 500}
QueryPowers == {100, 200, 300}
SelectTimes == {0, 1000, 1500, 1800000}

Row(i, estimated_power, estimated_completion, status) ==
  [conversation_id |-> "c1", prompt |-> 5, submitted_at |-> i,
   estimated_power |-> estimated_power, estimated_completion |-> estimated_completion,
   status |-> status,
   response |-> IF status = "completed" THEN "Hello" ELSE NULL]

SelectInit ==
  /\ \E n \in 0 .. MaxRows :
       \E f \in [1 .. n -> RowPowers \X SelectTimes \X Statuses] :
         requests = [i \in 1 .. n |-> Row(i, f[i][1], f[i][2], f[i][3])]
  /\ processing = TRUE
  /\ stop_processing = FALSE
  /\ immediate_mode \in BOOLEAN
  /\ prod = [p \in Producers |-> IdleProducer]
  /\ workers = [w \in WorkerIds |->
                  IF w = 1 THEN [DeadWorker EXCEPT !.pc = "loop"] ELSE DeadWorker]
  /\ battery_level = SetMax(BatteryLevels)
  /\ now \in SelectTimes
  /\ stopCalled = FALSE
  /\ raisedAt = -1
  /\ callback_fn = FALSE
  /\ hook_log = <<>>
  /\ result = NULL

SelectNext == \E w \in WorkerIds, available_power \in QueryPowers : Poll(w, available_power)

SelectSpec == SelectInit /\ [][SelectNext]_vars

\* ===================================================================
\* The store on its own.  A table of rows as enqueue leaves them, and callers
\* of update_request_status with any row, any status and any response, as
\* test_update_request_status calls it.  result records the call.
\* ===================================================================
Responses == {NULL, "", "Hello", "Bye"}

StoreInit ==
  /\ \E n \in 1 .. MaxRows :
       requests = [i \in 1 .. n |-> Row(i, SetMin(RowPowers), SetMax(SelectTimes), "queued")]
  /\ processing = FALSE
  /\ stop_processing = FALSE
  /\ immediate_mode = FALSE
  /\ prod = [p \in Producers |-> IdleProducer]
  /\ workers = [w \in WorkerIds |-> DeadWorker]
  /\ battery_level = SetMax(BatteryLevels)
  /\ now = 0
  /\ stopCalled = FALSE
  /\ raisedAt = -1
  /\ callback_fn = FALSE
  /\ hook_log = <<>>
  /\ result = NULL

UpdateRequestStatus(request_id, status, response) ==
  /\ requests' = update_request_status(requests, request_id, status, response)
  /\ result' = [call |-> "update_request_status", request_id |-> request_id,
                status |-> status, response |-> response]
  /\ UNCHANGED <<processing, stop_processing, immediate_mode, prod, workers,
                 battery_level, now, stopCalled, raisedAt, callback_fn, hook_log>>

StoreNext ==
  \E request_id \in Ids, status \in Statuses, response \in Responses :
    UpdateRequestStatus(request_id, status, response)

StoreSpec == StoreInit /\ [][StoreNext]_vars

\* ===================================================================
\* The estimate on its own.  enqueue_prompt's estimated_completion as a
\* function of the clock, the mode, the prompt, the queue length and the
\* forecast; result holds the inputs and then the value computed.  A forecast
\* is capable from one hour on and has enough sun from another; a queue of 60
\* makes queue_delay one hour.
\* ===================================================================
EstNows == {0, 1500}
EstPromptLens == {0, 5, 40}
EstQueueLengths == {0, 1, 60}
EstHours == {0, 5, 6, 23, HoursAhead}
WeakSolar == 100

EstForecast(first_capable, first_strong) ==
  [i \in 1 .. HoursAhead |->
     [processing_capable |-> i - 1 >= first_capable,
      solar_output |-> IF i - 1 >= first_strong THEN ForecastSolar ELSE WeakSolar]]

EstInit ==
  /\ requests = <<>>
  /\ processing = FALSE
  /\ stop_processing = FALSE
  /\ immediate_mode \in BOOLEAN
  /\ prod = [p \in Producers |-> IdleProducer]
  /\ workers = [w \in WorkerIds |-> DeadWorker]
  /\ battery_level = SetMax(BatteryLevels)
  /\ now \in EstNows
  /\ stopCalled = FALSE
  /\ raisedAt = -1
  /\ callback_fn = FALSE
  /\ hook_log = <<>>
  /\ \E promptLen \in EstPromptLens, queue_length \in EstQueueLengths,
        first_capable \in EstHours, first_strong \in EstHours :
       result = [prompt |-> promptLen, queue_length |-> queue_length,
                 first_capable |-> first_capable, first_strong |-> first_strong,
                 returned |-> FALSE, estimated_completion |-> 0]

\* enqueue_prompt, lines 120-153
Estimate ==
  /\ ~ result.returned
  /\ LET token_count == estimate_tokens(result.prompt)
         power_needed == estimate_power_requirement(token_count)
         processing_time == estimate_processing_time(token_count)
     IN result' = [result EXCEPT !.returned = TRUE, !.estimated_completion =
          EstimatedCompletion(now, immediate_mode,
                              EstForecast(result.first_capable, result.first_strong),
                              power_needed, processing_time, result.queue_length)]
  /\ UNCHANGED <<requests, processing, stop_processing, immediate_mode, prod, workers,
                 battery_level, now, stopCalled, raisedAt, callback_fn, hook_log>>

EstSpec == EstInit /\ [][Estimate]_vars

\* ===================================================================
\* The notification hook.  callback_fn is set, the battery is high and the sun
\* is up; producers enqueue concurrently, with and without a usable
\* conversation id; the driver returns or raises; the hook returns or raises.
\* ===================================================================
HookConvs == {"c1", "c2", "None"}
HookPromptLen == 5
HookSolar == SetMax(SolarLevels)

HookInit ==
  /\ requests = <<>>
  /\ processing = FALSE
  /\ stop_processing = FALSE
  /\ immediate_mode \in BOOLEAN
  /\ prod = [p \in Producers |-> IdleProducer]
  /\ workers = [w \in WorkerIds |-> DeadWorker]
  /\ battery_level = SetMax(BatteryLevels)
  /\ now = 0
  /\ stopCalled = FALSE
  /\ raisedAt = -1
  /\ callback_fn = TRUE
  /\ hook_log = <<>>
  /\ result = NULL

HookProducerStep ==
  \E p \in Producers :
    \/ \E conv \in HookConvs : Enqueue(p, conv, HookPromptLen, 0)
    \/ CheckProcessing(p)
    \/ StartCheck(p)
    \/ Spawn(p)

HookWorkerStep ==
  \E w \in WorkerIds :
    \/ Poll(w, HookSolar)
    \/ WorkerBegin(w)
    \/ MarkProcessing(w)
    \/ \E text \in Texts : GenerateReturns(w, text)
    \/ GenerateRaises(w)
    \/ MarkCompleted(w)
    \/ Callback(w)
    \/ CallbackRaises(w)
    \/ HookExcept(w)
    \/ MarkFailed(w)
    \/ Wake(w)
    \/ QueueCheck(w)
    \/ WorkerExit(w)

HookNext ==
  \/ HookProducerStep
  \/ HookWorkerStep
  \/ Tick

HookSpec == HookInit /\ [][HookNext]_vars

\* the same with a single producer, so that enqueue_prompt calls do not overlap
SoloProducerStep ==
  \/ \E conv \in HookConvs : Enqueue(Producer1, conv, HookPromptLen, 0)
  \/ CheckProcessing(Producer1)
  \/ StartCheck(Producer1)
  \/ Spawn(Producer1)

SoloHookNext ==
  \/ SoloProducerStep
  \/ HookWorkerStep
  \/ Tick

SoloHookSpec == HookInit /\ [][SoloHookNext]_vars

\* ===================================================================
\* A restart.  The table file outlives the process: RequestQueue.__init__ runs
\* init_db (CREATE TABLE IF NOT EXISTS) and PowerAwareScheduler.__init__ sets
\* its fields, so a new process starts with the rows the previous one left, in
\* any status, no worker thread and processing = False.
\* ===================================================================
FoundIds == {1}

RestartInit ==
  /\ \E status \in Statuses :
       requests = [i \in FoundIds |-> Row(i, SetMin(RowPowers), 0, status)]
  /\ processing = FALSE
  /\ stop_processing = FALSE
  /\ immediate_mode \in BOOLEAN
  /\ prod = [p \in Producers |-> IdleProducer]
  /\ workers = [w \in WorkerIds |-> DeadWorker]
  /\ battery_level = SetMax(BatteryLevels)
  /\ now = 0
  /\ stopCalled = FALSE
  /\ raisedAt = -1
  /\ callback_fn = TRUE
  /\ hook_log = <<>>
  /\ result = NULL

RestartSpec == RestartInit /\ [][HookNext]_vars

\* ===================================================================
\* Store failures.  update_request_status raises (sqlite3.OperationalError:
\* database is locked, disk I/O error) at one of its three call sites in the
\* worker loop.  One caller of enqueue_prompt at a time.
\* ===================================================================
\* line 202 is outside the try block: the exception leaves process_queue_loop,
\* the thread ends, line 282 is not reached and nothing was written
MarkProcessingFails(w) ==
  /\ workers[w].pc = "mark"
  /\ workers' = [workers EXCEPT ![w] = DeadWorker]
  /\ UNCHANGED <<requests, processing, stop_processing, immediate_mode, prod,
                 battery_level, now, stopCalled, raisedAt, aux>>

\* lines 232-236 are inside the try block: caught at line 261
MarkCompletedFails(w) ==
  /\ workers[w].pc = "complete"
  /\ workers' = [workers EXCEPT ![w].pc = "fail"]
  /\ UNCHANGED <<requests, processing, stop_processing, immediate_mode, prod,
                 battery_level, now, stopCalled, raisedAt, aux>>

\* line 265 is inside the except handler: the exception leaves the loop
MarkFailedFails(w) ==
  /\ workers[w].pc = "fail"
  /\ workers' = [workers EXCEPT ![w] = DeadWorker]
  /\ UNCHANGED <<requests, processing, stop_processing, immediate_mode, prod,
                 battery_level, now, stopCalled, raisedAt, aux>>

StoreFails ==
  \E w \in WorkerIds :
    \/ MarkProcessingFails(w)
    \/ MarkCompletedFails(w)
    \/ MarkFailedFails(w)

StoreFailNext ==
  \/ SoloHookNext
  \/ StoreFails

StoreFailSpec == HookInit /\ [][StoreFailNext]_vars

\* ===================================================================
\* Functions of the drivers and the monitors on their own.  The scheduler is
\* idle; result holds the inputs of a call and then what it returned.
\* ===================================================================
\* the scheduler's variables other than the battery level and result
idle == <<requests, processing, stop_processing, immediate_mode, prod, workers,
          now, stopCalled, raisedAt, callback_fn, hook_log>>

IdleScheduler ==
  /\ requests = <<>>
  /\ processing = FALSE
  /\ stop_processing = FALSE
  /\ immediate_mode = FALSE
  /\ prod = [p \in Producers |-> IdleProducer]
  /\ workers = [w \in WorkerIds |-> DeadWorker]
  /\ now = 0
  /\ stopCalled = FALSE
  /\ raisedAt = -1
  /\ callback_fn = FALSE
  /\ hook_log = <<>>

\* --- determine_max_tokens of the two drivers, with a power monitor
Drivers == {"LlamaProcessor", "MockLLMProcessor"}
BatteryPercents == 0 .. 100

LlamaProcessor_determine_max_tokens(level) ==
  IF level > 80 THEN 2048
  ELSE IF level > 50 THEN 1024
  ELSE IF level > 30 THEN 512
  ELSE 256

MockLLMProcessor_determine_max_tokens(level) ==
  IF level > 80 THEN 2048
  ELSE IF level > 50 THEN 1024
  ELSE 512

determine_max_tokens(driver, level) ==
  IF driver = "LlamaProcessor" THEN LlamaProcessor_determine_max_tokens(level)
  ELSE MockLLMProcessor_determine_max_tokens(level)

TokensInit ==
  /\ IdleScheduler
  /\ battery_level \in BatteryPercents
  /\ \E driver \in Drivers :
       result = [driver |-> driver, returned |-> FALSE, max_tokens |-> 0]

DetermineMaxTokens ==
  /\ ~ result.returned
  /\ result' = [result EXCEPT !.returned = TRUE,
                  !.max_tokens = determine_max_tokens(result.driver, battery_level)]
  /\ UNCHANGED <<idle, battery_level>>

TokensSpec == TokensInit /\ [][DetermineMaxTokens]_vars

\* --- LlamaProcessor.generate_response with its watchdog thread.  result.pc:
\* "generating" (the child runs, _monitor_power_during_generation polls),
\* "collected" (the child has ended, by itself or terminated), "cleaning"
\* (before _clean_response), "returned".  The battery level is the monitor's
\* and changes under other threads at any time.
WatchdogInit ==
  /\ IdleScheduler
  /\ battery_level \in BatteryPercents
  /\ result = [pc |-> "generating", terminated |-> FALSE, marker |-> FALSE]

\* lines 219-231: battery_level < 20, process.terminate()
WatchdogTerminates ==
  /\ result.pc = "generating"
  /\ battery_level < 20
  /\ result' = [result EXCEPT !.pc = "collected", !.terminated = TRUE]
  /\ UNCHANGED <<idle, battery_level>>

\* lines 126-153: the child ends by itself between two polls of the watchdog
ChildExits ==
  /\ result.pc = "generating"
  /\ result' = [result EXCEPT !.pc = "collected"]
  /\ UNCHANGED <<idle, battery_level>>

\* lines 160-166: simulate_battery_change(processing_duration, 5.0), a discharge
NoteEnergyUsed ==
  /\ result.pc = "collected"
  /\ battery_level' \in {b \in BatteryPercents : b <= battery_level}
  /\ result' = [result EXCEPT !.pc = "cleaning"]
  /\ UNCHANGED idle

\* lines 169 and 237-268: the note is added when the level read now is < 25
CleanResponse ==
  /\ result.pc = "cleaning"
  /\ result' = [result EXCEPT !.pc = "returned", !.marker = battery_level < 25]
  /\ UNCHANGED <<idle, battery_level>>

\* another thread charges or drains the battery while the call is under way
BatteryMoves ==
  /\ result.pc # "returned"
  /\ \E b \in BatteryPercents : BatteryChange(b)

GenerateResponse ==
  \/ WatchdogTerminates
  \/ ChildExits
  \/ NoteEnergyUsed
  \/ CleanResponse

WatchdogNext ==
  \/ GenerateResponse
  \/ BatteryMoves

WatchdogSpec == WatchdogInit /\ [][WatchdogNext]_vars

\* the same with no other thread touching the battery
QuietWatchdogSpec == WatchdogInit /\ [][GenerateResponse]_vars

\* --- update_power_calibration.  The calibration values are fractions, kept
\* exactly as numerator over a positive denominator in lowest terms; power in
\* centiwatts, elapsed time in seconds.  result holds the calibration data and the number of
\* updates made; each update draws its observations.
RECURSIVE GCD(_, _)
GCD(a, b) == IF b = 0 THEN a ELSE GCD(b, a % b)

Abs(a) == IF a < 0 THEN 0 - a ELSE a

Fraction(num, den) ==
  [num |-> num \div GCD(Abs(num), den), den |-> den \div GCD(Abs(num), den)]
Positive(q) == q.num > 0

PowerReadings == {0, base_power, 1200}
ElapsedSeconds == {0, 10}
TextLens == {0, 4}

\* 0.9 * old + 0.1 * (num / den)
Weighted(old, num, den) == Fraction(9 * old.num * den + num * old.den, 10 * old.den * den)

update_power_calibration(data, has_power, initial_power, final_power, time_elapsed, promptLen, responseLen) ==
  IF time_elapsed <= 0 THEN data
  ELSE LET twice_average_power ==
             IF has_power THEN final_power + initial_power ELSE 2 * base_power
           total_tokens == estimate_tokens(promptLen) + estimate_tokens(responseLen)
       IN IF total_tokens > 0
          THEN [tokens_per_second |->
                  Weighted(data.tokens_per_second, total_tokens, time_elapsed),
                token_processing_power |->
                  Weighted(data.token_processing_power,
                           twice_average_power - 2 * base_power, 2 * total_tokens),
                updates |-> data.updates]
          ELSE data

CalibrationInit ==
  /\ IdleScheduler
  /\ battery_level = SetMax(BatteryLevels)
  /\ result = [tokens_per_second |-> Fraction(tokens_per_second, 1),
               token_processing_power |-> Fraction(token_processing_power, 1),
               updates |-> 0]

UpdatePowerCalibration ==
  /\ result.updates < MaxUpdates
  /\ \E has_power \in BOOLEAN, initial_power \in PowerReadings, final_power \in PowerReadings,
        time_elapsed \in ElapsedSeconds, promptLen \in TextLens, responseLen \in TextLens :
       result' = [update_power_calibration(result, has_power, initial_power, final_power,
                                           time_elapsed, promptLen, responseLen)
                    EXCEPT !.updates = @ + 1]
  /\ UNCHANGED <<idle, battery_level>>

CalibrationSpec == CalibrationInit /\ [][UpdatePowerCalibration]_vars

\* --- the battery level of the monitors.  battery_level is the simulator's
\* field, read by other threads at any time; result.pc tells whether a
\* simulate_battery_change or simulate_time_passing call is between its
\* update and its clamp; result.tc66 is the last estimate of the TC66 monitor,
\* in tenths of a percent.  Levels in whole percent, voltages in centivolts.
\* The run is followed up to the first level outside the range.
InitialBattery == 75
ChargeAmounts == {-10, 10, 40}
PercentagesUsed == {0, 5, 30}
HourlyChanges == {-5, 20}
CentiVolts == {0, 330, 375, 420, 500}

Clamp(lo, hi, x) == IF x < lo THEN lo ELSE IF x > hi THEN hi ELSE x

InRange == battery_level >= 0 /\ battery_level <= 100

\* TC66PowerMonitor.estimate_battery_level: round(percentage, 1)
TC66_estimate_battery_level(voltage) ==
  (2 * (Clamp(330, 420, voltage) - 330) * 1000 + 90) \div (2 * 90)

BatteryInit ==
  /\ IdleScheduler
  /\ battery_level = InitialBattery
  /\ \E voltage \in CentiVolts :
       result = [pc |-> "idle", tc66 |-> TC66_estimate_battery_level(voltage)]

\* app.py simulate_charge: min(100, current + amount)
SimulateCharge(amount) ==
  /\ InRange /\ result.pc = "idle"
  /\ battery_level' = IF battery_level + amount > 100 THEN 100 ELSE battery_level + amount
  /\ UNCHANGED <<idle, result>>

\* app.py simulate_discharge: max(0, current - amount)
SimulateDischarge(amount) ==
  /\ InRange /\ result.pc = "idle"
  /\ battery_level' = IF battery_level - amount < 0 THEN 0 ELSE battery_level - amount
  /\ UNCHANGED <<idle, result>>

\* simulate_battery_change, line 145: self.battery_level -= percentage_used
SimulateBatteryChange(percentage_used) ==
  /\ InRange /\ result.pc = "idle"
  /\ battery_level' = battery_level - percentage_used
  /\ result' = [result EXCEPT !.pc = "clamp"]
  /\ UNCHANGED idle

\* simulate_time_passing, lines 181 and 200: self.battery_level += percentage_change
SimulateTimePassing(percentage_change) ==
  /\ InRange /\ result.pc = "idle"
  /\ battery_level' = battery_level + percentage_change
  /\ result' = [result EXCEPT !.pc = "clamp"]
  /\ UNCHANGED idle

\* lines 146, 182, 201: self.battery_level = max(0, min(100, self.battery_level))
ClampBattery ==
  /\ result.pc = "clamp"
  /\ battery_level' = Clamp(0, 100, battery_level)
  /\ result' = [result EXCEPT !.pc = "idle"]
  /\ UNCHANGED idle

\* TC66PowerMonitor.estimate_battery_level on a fresh voltage reading
EstimateBatteryLevel(voltage) ==
  /\ InRange
  /\ result' = [result EXCEPT !.tc66 = TC66_estimate_battery_level(voltage)]
  /\ UNCHANGED <<idle, battery_level>>

BatteryNext ==
  \/ \E amount \in ChargeAmounts : SimulateCharge(amount)
  \/ \E amount \in ChargeAmounts : SimulateDischarge(amount)
  \/ \E percentage_used \in PercentagesUsed : SimulateBatteryChange(percentage_used)
  \/ \E percentage_change \in HourlyChanges : SimulateTimePassing(percentage_change)
  \/ ClampBattery
  \/ \E voltage \in CentiVolts : EstimateBatteryLevel(voltage)

BatterySpec == BatteryInit /\ [][BatteryNext]_vars

\* the same with non-negative amounts only
PlainBatteryNext ==
  \/ \E amount \in {a \in ChargeAmounts : a >= 0} : SimulateCharge(amount)
  \/ \E amount \in {a \in ChargeAmounts : a >= 0} : SimulateDischarge(amount)
  \/ \E percentage_used \in PercentagesUsed : SimulateBatteryChange(percentage_used)
  \/ \E percentage_change \in HourlyChanges : SimulateTimePassing(percentage_change)
  \/ ClampBattery
  \/ \E voltage \in CentiVolts : EstimateBatteryLevel(voltage)

PlainBatterySpec == BatteryInit /\ [][PlainBatteryNext]_vars

\* --- predict_future_availability of the two monitors.  Power in deciwatts,
\* battery levels in hundredths of a percent.  The solar estimate of each hour
\* is drawn (cloud_factor is random, the TC66 monitor reads its history);
\* result holds the monitor, its battery level, the estimates and then the
\* list returned.
Monitors == {"MockPowerMonitor", "TC66PowerMonitor"}
base_consumption == 20
battery_capacity_wh == 37
SolarEstimates == {0, base_consumption, base_consumption + 1, 300}
StartLevels == {0, 2998, 3000, 7500}

\* variant: battery_level >= 30
ProcessingCapableAtThreshold(level, solar_estimate) ==
  level >= 3000 /\ solar_estimate > base_consumption

\* battery_level > 30 and solar_estimate > self.base_consumption
ProcessingCapable(level, solar_estimate) ==
  level > 3000 /\ solar_estimate > base_consumption

\* mock_monitor.py:84-89
MockNextLevel(level, solar_estimate) ==
  Clamp(0, 10000, level + 2 * (solar_estimate - base_consumption))

\* tc66_monitor.py:259-275
TC66NextLevel(level, solar_estimate) ==
  LET net_power == solar_estimate - base_consumption
      battery_change ==
        IF net_power > 0
        THEN (net_power * (85000 - 2 * level)) \div (100 * battery_capacity_wh)
        ELSE (net_power * 1000) \div battery_capacity_wh
  IN Clamp(0, 10000, level + battery_change)

RECURSIVE predict_future_availability(_, _, _, _)
predict_future_availability(monitor, level, solar, hour) ==
  IF hour > Len(solar) THEN <<>>
  ELSE LET next == IF monitor = "MockPowerMonitor"
                   THEN MockNextLevel(level, solar[hour])
                   ELSE TC66NextLevel(level, solar[hour])
       IN <<[solar_output |-> solar[hour], battery_level |-> next,
             processing_capable |-> ProcessingCapable(next, solar[hour])]>>
          \o predict_future_availability(monitor, next, solar, hour + 1)

ForecastInit ==
  /\ IdleScheduler
  /\ battery_level = SetMax(BatteryLevels)
  /\ \E monitor \in Monitors, level \in StartLevels, hours_ahead \in 0 .. MaxHoursAhead :
       \E solar \in [1 .. hours_ahead -> SolarEstimates] :
         result = [monitor |-> monitor, battery_level |-> level, solar |-> solar,
                   returned |-> FALSE, predictions |-> <<>>]

PredictFutureAvailability ==
  /\ ~ result.returned
  /\ result' = [result EXCEPT !.returned = TRUE,
                  !.predictions = predict_future_availability(result.monitor,
                                     result.battery_level, result.solar, 1)]
  /\ UNCHANGED <<idle, battery_level>>

ForecastSpec == ForecastInit /\ [][PredictFutureAvailability]_vars

\* ===================================================================
\* The store and its readers.  RequestQueue used on its own, as the tests and
\* the scheduler's query functions use it: enqueue, update_request_status,
\* get_request, get_queue_length, get_queue_position and the scheduler's
\* get_request_info, each with any id, known or not.  result records the last
\* call and what it returned.
\* ===================================================================
NoPosition == 0
RequestIds == 1 .. MaxStoreRows + 1
\* the arguments of the calls of enqueue: a prompt in a conversation, and an
\* empty prompt outside any
QueueArgs ==
  {[conversation_id |-> "c1", prompt |-> 5, estimated_power |-> 200,
    estimated_completion |-> 1500],
   [conversation_id |-> NULL, prompt |-> 0, estimated_power |-> 500,
    estimated_completion |-> 0]}
QueueResponses == {NULL, "Hello"}
NoRow == Row(NoRequest, 0, 0, "none")

\* variant: ROW_NUMBER() over every row, without WHERE status = 'queued'
get_queue_position_all_rows(request_id) ==
  IF request_id \in Ids /\ requests[request_id].status = "queued"
  THEN 1 + Cardinality({j \in Ids :
         /\ j # request_id
         /\ TextLE(isoformat(requests[j].submitted_at),
                   isoformat(requests[request_id].submitted_at))})
  ELSE NoPosition

\* ROW_NUMBER() OVER (ORDER BY submitted_at ASC) among the queued rows
get_queue_position(request_id) ==
  IF request_id \in Ids /\ requests[request_id].status = "queued"
  THEN 1 + Cardinality({j \in Ids :
         /\ j # request_id
         /\ requests[j].status = "queued"
         /\ TextLE(isoformat(requests[j].submitted_at),
                   isoformat(requests[request_id].submitted_at))})
  ELSE NoPosition

\* dict(row): the TEXT columns come back as the text that was stored
AsStored(row) ==
  [row EXCEPT !.submitted_at = isoformat(@), !.estimated_completion = isoformat(@)]

get_request(request_id) ==
  AsStored(IF request_id \in Ids THEN requests[request_id] ELSE NoRow)

QueueInit ==
  /\ IdleScheduler
  /\ battery_level = SetMax(BatteryLevels)
  /\ result = [call |-> "none"]

\* RequestQueue.enqueue: the new id is the row's index
QueueEnqueue(conversation_id, promptLen, estimated_power, estimated_completion) ==
  /\ Len(requests) < MaxStoreRows
  /\ requests' = Append(requests,
       [conversation_id |-> conversation_id, prompt |-> promptLen,
        submitted_at |-> SubmittedNow, estimated_power |-> estimated_power,
        estimated_completion |-> estimated_completion,
        status |-> "queued", response |-> NULL])
  /\ result' = [call |-> "enqueue", returned |-> Len(requests) + 1,
                conversation_id |-> conversation_id, prompt |-> promptLen,
                estimated_power |-> estimated_power,
                estimated_completion |-> estimated_completion]
  /\ UNCHANGED <<processing, stop_processing, immediate_mode, prod, workers,
                 battery_level, now, stopCalled, raisedAt, callback_fn, hook_log>>

GetRequest(request_id) ==
  /\ result' = [call |-> "get_request", request_id |-> request_id,
                found |-> request_id \in Ids, row |-> get_request(request_id)]
  /\ UNCHANGED <<idle, battery_level>>

GetQueueLength ==
  /\ result' = [call |-> "get_queue_length", returned |-> get_queue_length]
  /\ UNCHANGED <<idle, battery_level>>

GetQueuePosition(request_id) ==
  /\ result' = [call |-> "get_queue_position", request_id |-> request_id,
                returned |-> get_queue_position(request_id)]
  /\ UNCHANGED <<idle, battery_level>>

\* variant: an unknown id is answered like a known one, with an empty record
GetRequestInfoWithoutError(request_id) ==
  /\ result' = [call |-> "get_request_info", request_id |-> request_id,
                error |-> FALSE, row |-> get_request(request_id),
                queue_position |-> NoPosition]
  /\ UNCHANGED <<idle, battery_level>>

\* get_request_info: get_request, then for a queued row get_queue_position in
\* a second query; writers may run between the two, so the position is any
\* the row can have by then, or none
GetRequestInfo(request_id) ==
  /\ \E queue_position \in
          IF request_id \in Ids /\ requests[request_id].status = "queued"
          THEN {NoPosition} \cup 1 .. Len(requests) ELSE {NoPosition} :
       result' = [call |-> "get_request_info", request_id |-> request_id,
                  error |-> request_id \notin Ids, row |-> get_request(request_id),
                  queue_position |-> queue_position]
  /\ UNCHANGED <<idle, battery_level>>

QueueNext ==
  \/ \E a \in QueueArgs :
       QueueEnqueue(a.conversation_id, a.prompt, a.estimated_power, a.estimated_completion)
  \/ \E request_id \in Ids, status \in Statuses, response \in QueueResponses :
       UpdateRequestStatus(request_id, status, response)
  \/ \E request_id \in RequestIds : GetRequest(request_id)
  \/ GetQueueLength
  \/ \E request_id \in RequestIds : GetQueuePosition(request_id)
  \/ \E request_id \in RequestIds : GetRequestInfo(request_id)

QueueSpec == QueueInit /\ [][QueueNext]_vars

\* --- estimate_tokens and estimate_power_requirement on their own
EstimateTokensInit ==
  /\ IdleScheduler
  /\ battery_level = SetMax(BatteryLevels)
  /\ \E promptLen \in 0 .. MaxPromptLen :
       result = [prompt |-> promptLen, returned |-> FALSE,
                 token_count |-> 0, estimated_power |-> 0]

EstimateTokens ==
  /\ ~ result.returned
  /\ LET token_count == estimate_tokens(result.prompt)
     IN result' = [result EXCEPT !.returned = TRUE, !.token_count = token_count,
                     !.estimated_power = estimate_power_requirement(token_count)]
  /\ UNCHANGED <<idle, battery_level>>

EstimateTokensSpec == EstimateTokensInit /\ [][EstimateTokens]_vars

\* ===================================================================
\* Scenario: stop() and a job after it.  One caller; a first job starts the
\* worker, stop() is called while that worker is alive, and a second job is
\* enqueued afterwards, at any moment.  The battery is high, every solar
\* reading covers the jobs and the driver returns.  Threads that can run do
\* run and time passes (weak fairness).
\* ===================================================================
StopInit ==
  /\ requests = <<>>
  /\ processing = FALSE
  /\ stop_processing = FALSE
  /\ immediate_mode \in BOOLEAN
  /\ prod = [p \in Producers |-> IdleProducer]
  /\ workers = [w \in WorkerIds |-> DeadWorker]
  /\ battery_level = SetMax(BatteryLevels)
  /\ now = 0
  /\ stopCalled = FALSE
  /\ raisedAt = -1
  /\ callback_fn = FALSE
  /\ hook_log = <<>>
  /\ result = NULL

EnqueueBeforeStop ==
  /\ requests = <<>>
  /\ \E conv \in Convs, promptLen \in PromptLens : Enqueue(Producer1, conv, promptLen, 0)

StopWorker ==
  /\ LiveWorkers # {}
  /\ Stop

EnqueueAfterStop ==
  /\ stopCalled
  /\ Len(requests) = 1
  /\ \E conv \in Convs, promptLen \in PromptLens : Enqueue(Producer1, conv, promptLen, 0)

StopNext ==
  \/ EnqueueBeforeStop
  \/ StopWorker
  \/ EnqueueAfterStop
  \/ HappyProducerStep
  \/ HappyWorkerStep
  \/ HappyTick

StopSpec ==
  /\ StopInit
  /\ [][StopNext]_vars
  /\ WF_vars(HappyProducerStep)
  /\ WF_vars(HappyWorkerStep)
  /\ WF_vars(HappyTick)

\* --- generate_response of either driver with either monitor.  result holds
\* the driver, the text the generation yields, and one run of the same call
\* per monitor variant: where the call stands (pc), the monitor's processing
\* state and battery level, what the call returned, and the status and
\* response the scheduler stored for the job.
ErrorText == "Error generating response with llama.cpp"
GeneratedTexts == {"Hello", "Hello! How can I assist you today?"}
EnergyUsed == {0, 1}

Run ==
  [pc |-> "called", is_processing |-> FALSE, battery_level |-> InitialBattery,
   returned |-> NULL, status |-> "processing", response |-> NULL]

GenerationInit ==
  /\ IdleScheduler
  /\ battery_level = InitialBattery
  /\ \E driver \in Drivers, text \in GeneratedTexts :
       result = [driver |-> driver, text |-> text, runs |-> [m \in Monitors |-> Run]]

\* hasattr(power_monitor, "simulate_battery_change"): MockPowerMonitor defines
\* it (mock_monitor.py:128), TC66PowerMonitor and BasePowerMonitor do not
has_simulate_battery_change(monitor) == monitor = "MockPowerMonitor"

\* llama_processor.py:86, mock_processor.py:63 and 96: set_processing_state(True)
SetProcessingState(m) ==
  /\ result.runs[m].pc = "called"
  /\ result' = [result EXCEPT !.runs[m].pc = "generating",
                              !.runs[m].is_processing = TRUE]
  /\ UNCHANGED <<idle, battery_level>>

\* llama_processor.py:107-113 and 171-194: Popen raises, the error text is
\* returned through the except block
PopenFails(m) ==
  /\ result.driver = "LlamaProcessor"
  /\ result.runs[m].pc = "generating"
  /\ result' = [result EXCEPT !.runs[m].pc = "finally",
                              !.runs[m].returned = ErrorText]
  /\ UNCHANGED <<idle, battery_level>>

\* llama_processor.py:126-153, mock_processor.py:66 and 99: the output is there
OutputCollected(m) ==
  /\ result.runs[m].pc = "generating"
  /\ result' = [result EXCEPT !.runs[m].pc = "collected"]
  /\ UNCHANGED <<idle, battery_level>>

\* llama_processor.py:162-164, mock_processor.py:69-73 and 102-105:
\* power_monitor.simulate_battery_change(elapsed, 5.0).  Without the method
\* the call raises AttributeError: inside LlamaProcessor's try block, outside
\* any in MockLLMProcessor
SimulateBatteryChangeCalled(m) ==
  /\ result.runs[m].pc = "collected"
  /\ IF has_simulate_battery_change(m)
     THEN \E used \in EnergyUsed :
            result' = [result EXCEPT !.runs[m].pc = "reported",
                         !.runs[m].battery_level = Max(0, @ - used)]
     ELSE IF result.driver = "LlamaProcessor"
     THEN result' = [result EXCEPT !.runs[m].pc = "finally",
                                   !.runs[m].returned = ErrorText]
     ELSE result' = [result EXCEPT !.runs[m].pc = "raised"]
  /\ UNCHANGED <<idle, battery_level>>

\* llama_processor.py:167-171: return response, through finally;
\* mock_processor.py:74-76 and 106-108: set_processing_state(False), return
ReturnResponse(m) ==
  /\ result.runs[m].pc = "reported"
  /\ IF result.driver = "LlamaProcessor"
     THEN result' = [result EXCEPT !.runs[m].pc = "finally",
                                   !.runs[m].returned = result.text]
     ELSE result' = [result EXCEPT !.runs[m].pc = "returned",
                                   !.runs[m].is_processing = FALSE,
                                   !.runs[m].returned = result.text]
  /\ UNCHANGED <<idle, battery_level>>

\* llama_processor.py:203-207: finally, set_processing_state(False)
Finally(m) ==
  /\ result.runs[m].pc = "finally"
  /\ result' = [result EXCEPT !.runs[m].pc = "returned",
                              !.runs[m].is_processing = FALSE]
  /\ UNCHANGED <<idle, battery_level>>

\* power_aware_scheduler.py:232-236 and 261-265: the job is written completed
\* with what was returned, or failed when the call raised
JobRecorded(m) ==
  /\ result.runs[m].pc \in {"returned", "raised"}
  /\ IF result.runs[m].pc = "returned"
     THEN result' = [result EXCEPT !.runs[m].pc = "done",
                       !.runs[m].status = "completed",
                       !.runs[m].response = result.runs[m].returned]
     ELSE result' = [result EXCEPT !.runs[m].pc = "done",
                       !.runs[m].status = "failed"]
  /\ UNCHANGED <<idle, battery_level>>

GenerationNext ==
  \E m \in Monitors :
    \/ SetProcessingState(m)
    \/ PopenFails(m)
    \/ OutputCollected(m)
    \/ SimulateBatteryChangeCalled(m)
    \/ ReturnResponse(m)
    \/ Finally(m)
    \/ JobRecorded(m)

GenerationSpec == GenerationInit /\ [][GenerationNext]_vars

\* --- predict_future_availability after readings.  result holds the monitor,
\* its battery_level field (hundredths of a percent), the voltage of its last
\* reading (centivolts, TC66 only), the hourly solar estimates, and after the
\* call the list returned and the level estimate_battery_level reported at the
\* time of the call.
TrajectoryHours == 1 .. 2

\* mock_monitor.py:55-57 returns the field; tc66_monitor.py:200-218 the
\* percentage of the voltage read
estimate_battery_level(monitor, level, voltage) ==
  IF monitor = "MockPowerMonitor" THEN level
  ELSE 10 * TC66_estimate_battery_level(voltage)

TrajectoryInit ==
  /\ IdleScheduler
  /\ battery_level = InitialBattery
  /\ \E monitor \in Monitors, hours_ahead \in TrajectoryHours :
       \E solar \in [1 .. hours_ahead -> SolarEstimates] :
         result = [monitor |-> monitor, battery_level |-> 100 * InitialBattery,
                   voltage |-> 375, solar |-> solar, returned |-> FALSE,
                   predictions |-> <<>>, reported |-> 0]

\* TC66PowerMonitor.get_current_power_reading: a new reading from the meter
ReadVoltage(voltage) ==
  /\ result.monitor = "TC66PowerMonitor"
  /\ ~ result.returned
  /\ voltage # result.voltage
  /\ result' = [result EXCEPT !.voltage = voltage]
  /\ UNCHANGED <<idle, battery_level>>

\* MockPowerMonitor: simulate_battery_change, simulate_time_passing and app.py's
\* simulate_charge and simulate_discharge set the field
MockLevelChanges(level) ==
  /\ result.monitor = "MockPowerMonitor"
  /\ ~ result.returned
  /\ level # result.battery_level
  /\ result' = [result EXCEPT !.battery_level = level]
  /\ UNCHANGED <<idle, battery_level>>

\* predict_future_availability: both start from self.battery_level
\* (mock_monitor.py:68, tc66_monitor.py:248)
PredictFromCurrentLevel ==
  /\ ~ result.returned
  /\ result' = [result EXCEPT !.returned = TRUE,
       !.reported = estimate_battery_level(result.monitor, result.battery_level,
                                           result.voltage),
       !.predictions = predict_future_availability(result.monitor,
                          result.battery_level, result.solar, 1)]
  /\ UNCHANGED <<idle, battery_level>>

TrajectoryNext ==
  \/ \E voltage \in CentiVolts : ReadVoltage(voltage)
  \/ \E level \in StartLevels : MockLevelChanges(level)
  \/ PredictFromCurrentLevel

TrajectorySpec == TrajectoryInit /\ [][TrajectoryNext]_vars

\* ===================================================================
\* Properties
\* ===================================================================
Status(i) == requests[i].status
Queued == {i \in Ids : Status(i) = "queued"}
AllowedEdges == {<<"queued", "processing">>, <<"processing", "completed">>,
                 <<"processing", "failed">>}

\* C1: every change of a job's status is queued->processing,
\* processing->completed or processing->failed.
C1_AllowedTransitions ==
  [][\A i \in Ids : requests'[i].status # requests[i].status
        => <<requests[i].status, requests'[i].status>> \in AllowedEdges]_vars

\* C2: the response is null while the job is queued or processing and non-null
\* once it is completed or failed.
C2_ResponseMatchesStatus ==
  \A i \in Ids :
    /\ Status(i) \in {"queued", "processing"} => requests[i].response = NULL
    /\ Status(i) \in {"completed", "failed"} => requests[i].response # NULL

\* C4: at most one worker loop is alive at any time.
C4_AtMostOneWorker == Cardinality(LiveWorkers) <= 1

\* C5: no job is stranded: unless stop() was called, a queued job always has a
\* worker alive, or a producer still inside enqueue_prompt that will start one.
C5_NoStrandedJob ==
  (Queued # {} /\ ~stopCalled)
    => (LiveWorkers # {} \/ \E p \in Producers : prod[p].pc # "idle")

EarlierInConversation(i, j) ==
  /\ requests[i].conversation_id = requests[j].conversation_id
  /\ requests[i].submitted_at < requests[j].submitted_at

Runnable(i, available_power, immediate) ==
  /\ Status(i) = "queued"
  /\ immediate \/ ( /\ requests[i].estimated_power <= available_power
                    /\ requests[i].estimated_completion <= now )

C8_SelectsOnPowerAlone ==
  \A available_power \in QueryPowers :
    LET r == get_next_processable_request(available_power, FALSE)
        fits == {i \in Queued : requests[i].estimated_power <= available_power}
    IN /\ fits = {} => r = NoRequest
       /\ fits # {} =>
            /\ r \in fits
            /\ \A i \in fits : requests[r].submitted_at <= requests[i].submitted_at

Acted(w) == workers'[w] # workers[w]

\* C9: an iteration that reads a battery level <= 30 selects nothing and moves
\* nothing; a job is moved to processing only after a reading > 30.
C9_LowBatterySelectsNothing ==
  [][/\ \A w \in WorkerIds :
          (workers[w].pc = "loop" /\ Acted(w) /\ battery_level <= BatteryThreshold)
            => /\ workers'[w].pc \in {"sleep", "exit"}
               /\ workers'[w].next_request = NoRequest
               /\ requests' = requests
     /\ \A i \in Ids : (Status(i) = "queued" /\ requests'[i].status = "processing")
          => \E w \in WorkerIds :
               /\ workers[w].pc = "mark" /\ Acted(w)
               /\ workers[w].next_request = i
               /\ workers[w].battery > BatteryThreshold]_vars

\* C9 witness: a worker asleep for the low-battery period after reading exactly
\* 30 with a job queued in immediate mode.
C9_Witness ==
  /\ immediate_mode
  /\ battery_level = BatteryThreshold
  /\ Queued # {}
  /\ \E w \in WorkerIds :
       workers[w].pc = "sleep" /\ workers[w].until = now + LowBatterySleepMs

Accepted == requests # <<>>
Completed(i) == i \in Ids /\ requests[i].status = "completed"

\* the response column holds what the driver returned, for each job a worker
\* has just marked completed
StoredIsDrivers(texts) ==
  \A w \in WorkerIds :
    (workers[w].pc = "callback" /\ workers[w].response \in texts)
      => requests[workers[w].next_request].response = workers[w].response

\* C3: happy path, scheduled mode: from an idle scheduler with one producer,
\* battery above 30 and solar readings covering the job, an accepted job
\* eventually is completed with the driver's response stored, with no second
\* enqueue_prompt call.
C3_HappyPathCompletes ==
  /\ Accepted ~> Completed(1)
  /\ []StoredIsDrivers(Texts)

\* The happy path for the texts that update_request_status writes: the job is
\* picked up when due, completed, and a non-empty response is stored.
HappyPathCompletesNonEmpty ==
  /\ Accepted ~> Completed(1)
  /\ []StoredIsDrivers(Texts \ {""})
  /\ [](Len(requests) <= 1)

\* a job whose forecast had no usable hour, picked up a day later when its
\* estimated_completion fell due and completed with the driver's text
HappyPathReached ==
  /\ Completed(1)
  /\ requests[1].response \in Texts \ {""}
  /\ requests[1].estimated_completion = DayMs
  /\ now >= DayMs
  /\ processing = FALSE
  /\ LiveWorkers = {}

Raised == raisedAt >= 0

\* C10 as claimed: once the battery is raised the job is completed within 5 s.
C10_CompletedWithinFiveSeconds ==
  (Raised /\ now > raisedAt + 5000) => Completed(1)

\* C10 as amended: while the battery is low the job stays queued and the worker
\* keeps running; once the battery is raised the job is completed, no later
\* than one low-battery sleep (30 s) plus the generation time after the raise.
C10_CompletedAfterLowBatterySleep ==
  /\ [](( Accepted /\ ~Raised /\ prod[Producer1].pc = "idle")
          => (requests[1].status = "queued" /\ LiveWorkers # {}))
  /\ Raised ~> Completed(1)
  /\ []((Raised /\ ~Completed(1))
          => now <= raisedAt + LowBatterySleepMs + SetMax(GenDurationsMs))

\* C10 witness: the battery was raised while the worker slept on a low reading,
\* and the job was completed a full low-battery sleep plus a generation later.
C10_Witness ==
  /\ Raised
  /\ Completed(1)
  /\ now = raisedAt + LowBatterySleepMs + SetMax(GenDurationsMs)

HookCallsOf(i) == {k \in 1 .. Len(hook_log) : hook_log[k].job = i}

\* C11: the hook is called at most once per job that becomes completed, and
\* never for a job that ends in failed.
C11_HookAtMostOncePerCompletion ==
  \A i \in Ids :
    /\ Cardinality(HookCallsOf(i)) <= 1
    /\ Status(i) = "failed" => HookCallsOf(i) = {}

\* the hook is being called in this step
HookStep == hook_log' # hook_log
LastCall == hook_log'[Len(hook_log')]

\* C12: every call of the hook for a job comes after the job's completed status
\* and response are in the store and carries the conversation id the job was
\* enqueued with; a worker that has completed a job with a usable conversation
\* id calls the hook with that id.
C12_HookAfterCompletion ==
  [][/\ HookStep =>
          /\ requests[LastCall.job].status = "completed"
          /\ requests[LastCall.job].response # NULL
          /\ LastCall.conversation_id = requests[LastCall.job].conversation_id
     /\ \A w \in WorkerIds :
          ( /\ workers[w].pc = "callback" /\ Acted(w)
            /\ ValidConversation(requests[workers[w].next_request].conversation_id) )
          => /\ HookStep
             /\ LastCall.job = workers[w].next_request
             /\ LastCall.conversation_id = requests[workers[w].next_request].conversation_id]_vars

\* The same where enqueue_prompt calls do not overlap (SoloHookSpec) and the
\* driver returned a non-empty text: the response stored is the driver's.
HookAfterCompletionNonEmpty ==
  [][\A w \in WorkerIds :
       ( /\ workers[w].pc = "callback" /\ Acted(w)
         /\ workers[w].response # ""
         /\ ValidConversation(requests[workers[w].next_request].conversation_id) )
       => /\ HookStep
          /\ LastCall.job = workers[w].next_request
          /\ LastCall.conversation_id = requests[LastCall.job].conversation_id
          /\ requests[LastCall.job].status = "completed"
          /\ requests[LastCall.job].response = workers[w].response]_vars

\* C13: an exception of the hook is not propagated: handling the hook changes
\* no record (the job is not failed), and the worker goes on to the queue check
\* and from there, while a job is queued, to the next iteration.
C13_HookExceptionSwallowed ==
  [][\A w \in WorkerIds : Acted(w) =>
       /\ workers[w].pc = "callback" =>
            /\ workers'[w].pc \in {"qcheck", "hook_except"}
            /\ requests' = requests
       /\ workers[w].pc = "hook_except" =>
            /\ workers'[w].pc = "qcheck"
            /\ requests' = requests
       /\ (workers[w].pc = "qcheck" /\ Queued # {}) => workers'[w].pc = "loop"]_vars

\* C13 witness: the hook raised for job 1, which is completed with its response;
\* with no second worker ever started, job 2 has been taken up after it.
C13_Witness ==
  /\ Len(requests) = 2
  /\ \E k \in 1 .. Len(hook_log) : hook_log[k].job = 1 /\ hook_log[k].raised
  /\ Status(1) = "completed" /\ requests[1].response = "Hello"
  /\ \E w \in WorkerIds :
       /\ LiveWorkers = {w} /\ w = 1
       /\ workers[w].pc = "generate" /\ workers[w].next_request = 2
       /\ Len(hook_log) = 1

\* C14: when the driver fails during a generation, the job goes to failed with
\* a non-null diagnostic in response, and the worker goes on to the queue check
\* and the next job.
C14_DriverFailureRecorded ==
  [][\A w \in WorkerIds :
       (workers[w].pc = "fail" /\ workers'[w].pc # "fail")
         => /\ requests'[workers[w].next_request].status = "failed"
            /\ requests'[workers[w].next_request].response # NULL
            /\ workers'[w].pc = "qcheck"]_vars

\* C15: update_request_status rejects every status change other than the three
\* allowed edges, leaving the record unchanged; on an accepted change it
\* writes response if and only if the new status is terminal.
Terminal == {"completed", "failed"}

C15_TransitionGuarded ==
  [][LET call == result'
         old == requests[call.request_id]
         new == requests'[call.request_id]
     IN  IF <<old.status, call.status>> \in AllowedEdges
         THEN /\ new.status = call.status
              /\ new.response = IF call.status \in Terminal
                                THEN call.response ELSE old.response
         ELSE new = old]_vars

\* C16: recovery on restart: every job found in status processing at start is
\* moved to failed with diagnostic "interrupted" before the worker processes
\* any job; jobs found queued stay queued until normal selection takes them.
\* A found job is stale while it is in processing and no worker holds it.
Holds(w, i) == Live(w) /\ workers[w].next_request = i

Stale(i) == Status(i) = "processing" /\ ~ \E w \in WorkerIds : Holds(w, i)

C16_StaleSweptBeforeWork ==
  (\E w \in WorkerIds : Live(w) /\ workers[w].next_request # NoRequest)
    => \A i \in FoundIds : ~ Stale(i)

\* C17: when a status write fails in the worker loop (after its bounded
\* retries), the worker loop is aborted and recorded as no longer running, and
\* the job it was processing is left in processing.
WriteFailed(w) ==
  /\ Acted(w)
  /\ \/ workers[w].pc = "mark" /\ workers'[w].pc # "generate"
     \/ workers[w].pc = "complete" /\ workers'[w].pc # "callback"
     \/ workers[w].pc = "fail" /\ workers'[w].pc # "qcheck"

C17_StoreFailureAbortsOrderly ==
  [][\A w \in WorkerIds :
       WriteFailed(w)
         => /\ ~ Live(w)'
            /\ processing' = FALSE
            /\ workers[w].pc # "mark"
                 => requests'[workers[w].next_request].status = "processing"]_vars

\* C18: enqueue_prompt with an empty prompt surfaces an error and changes no
\* state: no job with an empty prompt is ever in the store.
C18_EmptyPromptRejected == \A i \in Ids : requests[i].prompt # 0

\* C19: in scheduled mode the estimate is now + h hours + the processing time
\* + queue_delay for the smallest forecast index h whose entry is
\* processing_capable with estimated_power <= solar_output, and now + 24 h
\* when no entry qualifies.
Estimated == result.returned

Qualifying ==
  LET fc == EstForecast(result.first_capable, result.first_strong)
      power == estimate_power_requirement(estimate_tokens(result.prompt))
  IN {h \in 0 .. HoursAhead - 1 :
        fc[h + 1].processing_capable /\ power <= fc[h + 1].solar_output}

AtFirstQualifying ==
  now + SetMin(Qualifying) * HourMs
      + estimate_processing_time(estimate_tokens(result.prompt))
      + QueueDelayMs * result.queue_length

DayAhead == now + HoursAhead * HourMs

C19_EstimateAtFirstQualifyingHour ==
  (Estimated /\ ~ immediate_mode)
    => result.estimated_completion =
         IF Qualifying = {} THEN DayAhead ELSE AtFirstQualifying

\* C19 as the code has it: the same, but never later than now + 24 h.
C19_EstimateCappedAtDayAhead ==
  (Estimated /\ ~ immediate_mode)
    => result.estimated_completion =
         IF Qualifying = {} THEN DayAhead ELSE SetMin({AtFirstQualifying, DayAhead})

\* C19 witness: the first qualifying hour is the last of the forecast and the
\* queue holds 60 jobs, so the candidate lies beyond now + 24 h.
C19_Witness ==
  /\ Estimated /\ ~ immediate_mode
  /\ Qualifying = {HoursAhead - 1}
  /\ AtFirstQualifying > DayAhead
  /\ result.estimated_completion = DayAhead

\* C19, the usual case: an estimate at a qualifying hour past the sixth.
EstimateAtLateHour ==
  /\ Estimated /\ ~ immediate_mode
  /\ Qualifying # {} /\ SetMin(Qualifying) = HoursAhead - 1
  /\ result.estimated_completion = AtFirstQualifying
  /\ result.queue_length = 1

\* C20: in immediate mode the estimate of a newly enqueued job is now + its
\* tokens / tokens_per_second + 60 s for every job queued at the time of the
\* call, whatever the forecast; of two prompts of equal length the one behind
\* more queued jobs gets the later estimate.
Enqueued == Len(requests') = Len(requests) + 1

ImmediateEstimateIgnoresForecast ==
  (Estimated /\ immediate_mode)
    => result.estimated_completion =
         now + (estimate_tokens(result.prompt) * 1000) \div tokens_per_second
             + QueueDelayMs * result.queue_length

\* C21: for every job persisted through enqueue_prompt the stored
\* estimated_completion is not earlier than the stored submitted_at, for every
\* prompt length, queue length and mode.
C21_EstimateNotBeforeSubmission ==
  \A i \in Ids : requests[i].estimated_completion >= requests[i].submitted_at

\* C22: for both drivers determine_max_tokens returns 2048 when the battery is
\* above 80, 1024 above 50, 512 above 30 and 256 otherwise.
C22_MaxTokensByBattery ==
  result.returned
    => result.max_tokens = IF battery_level > 80 THEN 2048
                           ELSE IF battery_level > 50 THEN 1024
                           ELSE IF battery_level > 30 THEN 512
                           ELSE 256

\* C22, the second half: each driver's limit is non-decreasing in the battery
\* level.
MaxTokensMonotone ==
  \A driver \in Drivers : \A lo \in BatteryPercents, hi \in BatteryPercents :
    lo <= hi => determine_max_tokens(driver, lo) <= determine_max_tokens(driver, hi)

\* C23: whenever the watchdog terminated the generation, the text returned
\* carries the truncation marker, whatever the battery did in between.
C23_TerminationIsMarked ==
  (result.pc = "returned" /\ result.terminated) => result.marker

\* C24: after any calibration update tokens_per_second and
\* token_processing_power are both > 0, given both were > 0 before it and the
\* observations were non-negative.
C24_CalibrationStaysPositive ==
  [][(Positive(result.tokens_per_second) /\ Positive(result.token_processing_power))
       => (Positive(result'.tokens_per_second) /\ Positive(result'.token_processing_power))]_vars

\* C24, the half that holds: tokens_per_second stays > 0.
TokensPerSecondStaysPositive == Positive(result.tokens_per_second)

\* C25: the battery level reported by either monitor is always within
\* [0, 100].
C25_BatteryWithinRange ==
  /\ battery_level >= 0 /\ battery_level <= 100
  /\ result.tc66 >= 0 /\ result.tc66 <= 1000

\* C25 for the calls alone: the level is within range whenever no
\* simulate_battery_change or simulate_time_passing call is under way.
BatteryWithinRangeBetweenCalls ==
  result.pc = "idle" => C25_BatteryWithinRange

\* C25 for the TC66 monitor alone.
TC66WithinRange == result.tc66 >= 0 /\ result.tc66 <= 1000

\* C26: for every entry returned by predict_future_availability of either
\* monitor, processing_capable is true exactly when the entry's battery_level
\* is > 30 and its solar_output is > base_consumption.
C26_CapableIffBatteryAndSun ==
  result.returned
    => /\ Len(result.predictions) = Len(result.solar)
       /\ \A h \in 1 .. Len(result.predictions) :
            LET e == result.predictions[h]
            IN e.processing_capable
                 <=> (e.battery_level > 3000 /\ e.solar_output > base_consumption)

\* C26 witness: a forecast returned with an entry at exactly 30% under enough
\* sun, not capable, followed by a capable one.
C26_Witness ==
  /\ result.returned
  /\ \E h \in 1 .. Len(result.predictions) - 1 :
       /\ result.predictions[h].battery_level = 3000
       /\ result.predictions[h].solar_output > base_consumption
       /\ ~ result.predictions[h].processing_capable
       /\ result.predictions[h + 1].processing_capable

\* C27: after stop() the worker loop ends with its current iteration: no job
\* is taken up for processing on an iteration begun after stop() was called.
C27_NoNewJobAfterStop ==
  [][\A w \in WorkerIds :
       (stopCalled /\ workers[w].pc = "loop") => workers'[w].pc # "mark"]_vars

\* C27 as far as the flag goes: an iteration begun while stop_processing is
\* set takes up no job and ends the loop.
StopFlagEndsLoop ==
  [][\A w \in WorkerIds :
       (stop_processing /\ workers[w].pc = "loop" /\ Acted(w))
         => workers'[w].pc = "exit"]_vars

\* C28: get_queue_position returns the job's 1-based rank by submitted_at
\* among the queued jobs, and none for a job that is not queued or does not
\* exist; the positions of the queued jobs are exactly 1..get_queue_length();
\* get_queue_length counts the queued jobs only.
RankAmongQueued(i) ==
  Cardinality({j \in Queued : requests[j].submitted_at <= requests[i].submitted_at})

C28_PositionIsRankAmongQueued ==
  /\ result.call = "get_queue_position"
       => result.returned = IF result.request_id \in Queued
                            THEN RankAmongQueued(result.request_id) ELSE NoPosition
  /\ result.call = "get_queue_length" => result.returned = Cardinality(Queued)
  /\ {get_queue_position(i) : i \in Queued} = 1 .. get_queue_length

\* C28 witness: the first of three jobs is no longer queued; the third is
\* asked for and is second in the queue.
C28_Witness ==
  /\ Len(requests) = 3
  /\ Status(1) = "completed" /\ Status(2) = "queued" /\ Status(3) = "queued"
  /\ result.call = "get_queue_position"
  /\ result.request_id = 3 /\ result.returned = 2

\* C29: enqueue creates exactly one new record, with an id no existing record
\* has, status queued and no response; get_queue_length grows by one and
\* every other record is unchanged; get_request on the returned id yields the
\* conversation_id, prompt, estimated_power and estimated_completion passed in
\* (the instant as its ISO text).
InstantOf(text) == text[1] * 1000 + (IF Len(text) = 1 THEN 0 ELSE text[2])

YieldsWhatWasPassed(row, call) ==
  /\ row.conversation_id = call.conversation_id
  /\ row.prompt = call.prompt
  /\ row.estimated_power = call.estimated_power
  /\ InstantOf(row.estimated_completion) = call.estimated_completion

C29_EnqueueAddsOneQueuedRecord ==
  [][/\ (\E a \in QueueArgs :
           QueueEnqueue(a.conversation_id, a.prompt, a.estimated_power,
                        a.estimated_completion))
          => /\ Len(requests') = Len(requests) + 1
             /\ result'.returned \notin Ids
             /\ result'.returned \in DOMAIN requests'
             /\ requests'[result'.returned].status = "queued"
             /\ requests'[result'.returned].response = NULL
             /\ get_queue_length' = get_queue_length + 1
             /\ \A i \in Ids : requests'[i] = requests[i]
             /\ YieldsWhatWasPassed(AsStored(requests'[result'.returned]), result')
     /\ (result.call = "enqueue" /\ GetRequest(result.returned))
          => /\ result'.found
             /\ YieldsWhatWasPassed(result'.row, result)]_vars

\* C29 witness: a second job, with a completion instant between two seconds,
\* has been added to a store whose first job is completed, and read back.
C29_Witness ==
  /\ Len(requests) = 2 /\ Status(1) = "completed" /\ Status(2) = "queued"
  /\ result.call = "get_request" /\ result.request_id = 2 /\ result.found
  /\ requests[2].response = NULL
  /\ result.row.estimated_completion = <<1, 500>>
  /\ result.row.conversation_id = "c1"

\* C30: get_request_info for an id that is not in the store returns an error
\* value and changes no state: no record is created or modified, and no
\* worker is started.
C30_UnknownIdIsAnErrorAndNoChange ==
  [][\A request_id \in RequestIds :
       (request_id \notin Ids /\ GetRequestInfo(request_id))
         => /\ result'.call = "get_request_info"
            /\ result'.request_id = request_id
            /\ result'.error
            /\ requests' = requests
            /\ workers' = workers
            /\ processing' = processing]_vars

\* C30 witness: a store of two jobs has been asked for a third.
C30_Witness ==
  /\ Len(requests) = 2
  /\ result.call = "get_request_info"
  /\ result.request_id = 3
  /\ result.error

\* C31: estimate_tokens returns 0 for the empty prompt and max(1, floor(length / 4))
\* for every non-empty prompt; the estimated power of T tokens is
\* base_power + T * token_processing_power, so that of 0 tokens is base_power.
C31_TokensAndPowerOfPrompt ==
  result.returned =>
    /\ result.prompt = 0 => result.token_count = 0
    /\ result.prompt \in 1 .. 3 => result.token_count = 1
    /\ result.prompt >= 4 =>
         /\ 4 * result.token_count <= result.prompt
         /\ result.prompt < 4 * (result.token_count + 1)
    /\ result.estimated_power = base_power + result.token_count * token_processing_power
    /\ result.token_count = 0 => result.estimated_power = base_power

\* C31 witness: the empty prompt has been estimated at 0 tokens and base_power.
C31_Witness ==
  /\ result.returned
  /\ result.prompt = 0
  /\ result.token_count = 0
  /\ result.estimated_power = base_power

\* C32: the running flag (processing) is true only while a worker loop is
\* alive: whenever the worker thread has ended, for any reason, the flag is
\* false.
C32_FlagOnlyWhileWorkerAlive == processing => LiveWorkers # {}

\* C33: each job is handed to the driver at most once: a worker enters
\* generate_response only with a job that is still queued, one no worker has
\* marked processing before.
HandsToDriver(w) == workers[w].pc = "mark" /\ workers'[w].pc = "generate"

C33_HandedToDriverAtMostOnce ==
  [][\A w \in WorkerIds :
       HandsToDriver(w) => Status(workers[w].next_request) = "queued"]_vars

\* C34: at most one job has status processing at any time.
InProcessing == {i \in Ids : Status(i) = "processing"}

C34_AtMostOneJobProcessing == Cardinality(InProcessing) <= 1

\* C35: unless stop() was called, the worker loop is left only directly after
\* the worker has observed that no job is queued; with a job queued, runnable
\* or not, the worker goes round the loop again.
LeavesLoop(w) ==
  /\ workers[w].pc \notin {"exit", "dead"}
  /\ workers'[w].pc \in {"exit", "dead"}

C35_ExitOnlyOnEmptyQueue ==
  [][\A w \in WorkerIds :
       /\ (LeavesLoop(w) /\ ~stopCalled)
            => (workers[w].pc = "qcheck" /\ Queued = {})
       /\ (Acted(w) /\ workers[w].pc = "qcheck" /\ Queued # {})
            => workers'[w].pc = "loop"]_vars

\* C36: a stop request does not outlive the worker it stopped: a job enqueued
\* after stop(), also while the stopped worker has not yet exited, is
\* eventually picked up by a worker without a further enqueue_prompt call.
EnqueuedAfterStop(i) == stopCalled /\ Len(requests) >= i

C36_JobAfterStopPickedUp ==
  EnqueuedAfterStop(2) ~> (EnqueuedAfterStop(2) /\ Status(2) # "queued")

\* what the claim excludes: the job enqueued after stop() is queued, no worker
\* is alive and no enqueue_prompt call is in progress
StrandedAfterStop ==
  /\ EnqueuedAfterStop(2)
  /\ Status(2) = "queued"
  /\ LiveWorkers = {}
  /\ \A p \in Producers : prod[p].pc = "idle"

\* C37: in scheduled mode the estimated_completion of enqueue_prompt never
\* exceeds now + 24 h, however long the queue and the prompt: a candidate later
\* than now + 24 h is discarded and the 24 h default returned.
C37_EstimateWithinDayAhead ==
  (Estimated /\ ~ immediate_mode)
    => /\ result.estimated_completion <= DayAhead
       /\ (Qualifying # {} /\ AtFirstQualifying > DayAhead)
            => result.estimated_completion = DayAhead

\* C37 witness: a long prompt behind a queue of 60 jobs, with sun only in the
\* last hour of the forecast; the candidate is beyond now + 24 h and the
\* default is returned.
C37_Witness ==
  /\ Estimated /\ ~ immediate_mode
  /\ result.prompt = SetMax(EstPromptLens)
  /\ result.queue_length = SetMax(EstQueueLengths)
  /\ Qualifying # {}
  /\ AtFirstQualifying > DayAhead
  /\ result.estimated_completion = DayAhead

\* C38: after generate_response has returned, normally or after an internal
\* error, the monitor's processing state is false again, for both drivers and
\* both monitors.
CallEnded(m) == result.runs[m].pc \in {"returned", "raised", "done"}

C38_ProcessingStateFalseAfterCall ==
  \A m \in Monitors : CallEnded(m) => ~ result.runs[m].is_processing

\* C38 where the energy report is accepted: with MockPowerMonitor the state is
\* false after the call, for both drivers.
ProcessingStateFalseWithSimulator ==
  CallEnded("MockPowerMonitor") => ~ result.runs["MockPowerMonitor"].is_processing

\* C38 for LlamaProcessor: its finally block resets the state with both monitors.
ProcessingStateFalseAfterLlama ==
  result.driver = "LlamaProcessor" => C38_ProcessingStateFalseAfterCall

\* C40: the outcome of processing a job does not depend on the monitor
\* variant: with the same driver and the same generation, the job ends in the
\* same terminal status with the same stored response under TC66PowerMonitor
\* as under MockPowerMonitor.
BothRecorded == \A m \in Monitors : result.runs[m].pc = "done"

C40_OutcomeSameForBothMonitors ==
  BothRecorded =>
    \A m, n \in Monitors :
      /\ result.runs[m].status = result.runs[n].status
      /\ result.runs[m].response = result.runs[n].response

\* C39: the battery trajectory of predict_future_availability starts from the
\* level estimate_battery_level reports at the time of the call, for both
\* monitors and after any readings.
C39_TrajectoryStartsAtReportedLevel ==
  result.returned
    => result.predictions =
         predict_future_availability(result.monitor, result.reported, result.solar, 1)

\* C39 for the simulator alone, after any changes of its battery level.
SimulatorTrajectoryStartsAtReportedLevel ==
  result.monitor = "MockPowerMonitor" => C39_TrajectoryStartsAtReportedLevel

====
